---- MODULE Spec2Model ----
(***************************************************************************)
(* Model of generate.py, the Nineteen58 pitch deck generator.              *)
(*                                                                         *)
(* Text is a sequence of one-character strings, so that str.replace, the   *)
(* placeholder regex and the dot-joining of keys are computed character by *)
(* character, as Python computes them.  A JSON value is a record with a    *)
(* tag; a JSON object (a Python dict, which keeps insertion order) is a    *)
(* sequence of entries [k, v] with pairwise distinct keys.                 *)
(***************************************************************************)
EXTENDS Integers, Sequences, FiniteSets, TLC

\* ------------------------------------------------------------------------
\* Bounds of the model
\* ------------------------------------------------------------------------

\* Total number of entries (at all nesting levels) of a generated document.
MaxEntries == 3

\* Number of pieces a generated template text is concatenated from.
MaxPieces == 3

\* ------------------------------------------------------------------------
\* Text
\* ------------------------------------------------------------------------

\* Unicode code points of the characters the model uses (Python compares
\* strings code point by code point).
CharCode(c) ==
    CASE c = " " -> 32  [] c = "-" -> 45  [] c = "." -> 46  [] c = "/" -> 47
      [] c = "0" -> 48  [] c = "1" -> 49  [] c = "2" -> 50  [] c = "3" -> 51
      [] c = "4" -> 52  [] c = "5" -> 53  [] c = "6" -> 54  [] c = "7" -> 55
      [] c = "8" -> 56  [] c = "9" -> 57  [] c = "<" -> 60  [] c = ">" -> 62
      [] c = "F" -> 70  [] c = "N" -> 78  [] c = "T" -> 84
      [] c = "a" -> 97  [] c = "b" -> 98  [] c = "c" -> 99  [] c = "e" -> 101
      [] c = "h" -> 104 [] c = "l" -> 108 [] c = "m" -> 109 [] c = "n" -> 110
      [] c = "o" -> 111 [] c = "p" -> 112 [] c = "r" -> 114 [] c = "s" -> 115
      [] c = "t" -> 116 [] c = "u" -> 117 [] c = "x" -> 120 [] c = "y" -> 121
      [] c = "{" -> 123 [] c = "}" -> 125

\* s < t in Python's string order.
RECURSIVE StrLess(_, _)
StrLess(s, t) ==
    IF t = <<>> THEN FALSE
    ELSE IF s = <<>> THEN TRUE
    ELSE IF Head(s) = Head(t) THEN StrLess(Tail(s), Tail(t))
    ELSE CharCode(Head(s)) < CharCode(Head(t))

\* s.startswith(p)
StartsWith(s, p) ==
    /\ Len(p) <= Len(s)
    /\ SubSeq(s, 1, Len(p)) = p

\* s.endswith(p)
EndsWith(s, p) ==
    /\ Len(p) <= Len(s)
    /\ SubSeq(s, Len(s) - Len(p) + 1, Len(s)) = p

\* s from its (n+1)-th character on: s[n:]
Drop(s, n) == SubSeq(s, n + 1, Len(s))

\* p in s
RECURSIVE Contains(_, _)
Contains(s, p) ==
    IF Len(s) < Len(p) THEN FALSE
    ELSE StartsWith(s, p) \/ Contains(Tail(s), p)

\* str(n) for an int n
RECURSIVE StrOfNat(_)
StrOfNat(n) ==
    LET digits == <<"0", "1", "2", "3", "4", "5", "6", "7", "8", "9">>
    IN  IF n < 10 THEN <<digits[n + 1]>>
        ELSE StrOfNat(n \div 10) \o <<digits[(n % 10) + 1]>>

StrOfInt(n) == IF n < 0 THEN <<"-">> \o StrOfNat(-n) ELSE StrOfNat(n)

\* ------------------------------------------------------------------------
\* JSON values as json.load returns them
\* ------------------------------------------------------------------------

JStr(s)   == [tag |-> "str",  s |-> s,    n |-> 0, items |-> <<>>]
JInt(n)   == [tag |-> "int",  s |-> <<>>, n |-> n, items |-> <<>>]
JBool(b)  == [tag |-> "bool", s |-> <<>>, n |-> IF b THEN 1 ELSE 0, items |-> <<>>]
JNull     == [tag |-> "null", s |-> <<>>, n |-> 0, items |-> <<>>]
JDict(d)  == [tag |-> "dict", s |-> <<>>, n |-> 0, items |-> d]

\* str(value) of a value that is not a dict
StrOf(v) ==
    CASE v.tag = "str"  -> v.s
      [] v.tag = "int"  -> StrOfInt(v.n)
      [] v.tag = "bool" -> IF v.n = 1 THEN <<"T", "r", "u", "e">>
                           ELSE <<"F", "a", "l", "s", "e">>
      [] v.tag = "null" -> <<"N", "o", "n", "e">>

\* ------------------------------------------------------------------------
\* Python dicts: insertion-ordered sequences of entries [k, v]
\* ------------------------------------------------------------------------

DictKeys(d) == {d[i].k : i \in 1..Len(d)}

HasKey(d, key) == \E i \in 1..Len(d) : d[i].k = key

DictGet(d, key) == d[CHOOSE i \in 1..Len(d) : d[i].k = key].v

\* d[key] = value: an existing key keeps its position, a new key is appended
DictSet(d, key, value) ==
    IF HasKey(d, key)
    THEN [i \in 1..Len(d) |-> IF d[i].k = key THEN [k |-> key, v |-> value] ELSE d[i]]
    ELSE Append(d, [k |-> key, v |-> value])

\* d.update(other)
RECURSIVE DictUpdate(_, _)
DictUpdate(d, other) ==
    IF other = <<>> THEN d
    ELSE DictUpdate(DictSet(d, Head(other).k, Head(other).v), Tail(other))

\* ------------------------------------------------------------------------
\* flatten
\* ------------------------------------------------------------------------

\* The key composed without the test of prefix: f"{prefix}.{key}"
FullKeyNoPrefixTest(prefix, key) == prefix \o <<".">> \o key

\* f"{prefix}.{key}" if prefix else key
full_key(prefix, key) ==
    IF prefix /= <<>> THEN prefix \o <<".">> \o key ELSE key

\* flatten(d, prefix): the loop over d.items(), started with result
RECURSIVE flattenInto(_, _, _)
flattenInto(result, d, prefix) ==
    IF d = <<>> THEN result
    ELSE LET key   == Head(d).k
             value == Head(d).v
             fk    == full_key(prefix, key)
             next  == IF value.tag = "dict"
                      THEN DictUpdate(result, flattenInto(<<>>, value.items, fk))
                      ELSE DictSet(result, fk, StrOf(value))
         IN  flattenInto(next, Tail(d), prefix)

flatten(d, prefix) == flattenInto(<<>>, d, prefix)

\* ------------------------------------------------------------------------
\* Placeholder replacement and the scan for leftover placeholders
\* ------------------------------------------------------------------------

\* The key without its braces
TokenBare(key) == key

\* "{{" + key + "}}"
Token(key) == <<"{", "{">> \o key \o <<"}", "}">>

\* s.replace(old, new, 1): the first occurrence only
RECURSIVE ReplaceFirst(_, _, _)
ReplaceFirst(s, old, new) ==
    IF old = <<>> THEN new \o s
    ELSE IF Len(s) < Len(old) THEN s
    ELSE IF StartsWith(s, old) THEN new \o Drop(s, Len(old))
    ELSE <<Head(s)>> \o ReplaceFirst(Tail(s), old, new)

\* s.replace(old, new): every non-overlapping occurrence, left to right.
\* With old empty, Python puts new before every character and at the end.
RECURSIVE Replace(_, _, _)
Replace(s, old, new) ==
    IF old = <<>>
    THEN IF s = <<>> THEN new
         ELSE new \o <<Head(s)>> \o Replace(Tail(s), old, new)
    ELSE IF Len(s) < Len(old) THEN s
    ELSE IF StartsWith(s, old) THEN new \o Replace(Drop(s, Len(old)), old, new)
    ELSE <<Head(s)>> \o Replace(Tail(s), old, new)

\* The loop left after its first iteration
ReplaceFirstKeyOnly(html, flat) ==
    IF flat = <<>> THEN html
    ELSE Replace(html, Token(Head(flat).k), Head(flat).v)

\* for key, value in flat.items(): html = html.replace("{{" + key + "}}", value)
RECURSIVE ReplaceAll(_, _)
ReplaceAll(html, flat) ==
    IF flat = <<>> THEN html
    ELSE ReplaceAll(Replace(html, Token(Head(flat).k), Head(flat).v), Tail(flat))

\* The scan works on positions of the one text s.

\* The number of characters from position i on that are not "}": what
\* [^}]+ consumes there.
RECURSIVE NonCloseRun(_, _)
NonCloseRun(s, i) ==
    IF i > Len(s) \/ s[i] = "}" THEN 0 ELSE 1 + NonCloseRun(s, i + 1)

\* The length of the match of \{\{[^}]+\}\} at position i of s, 0 if none.
\* [^}]+ is greedy and a shorter run is followed by a character that is not
\* "}", so the only candidate is the whole run.
MatchLen(s, i) ==
    IF ~(i + 1 <= Len(s) /\ s[i] = "{" /\ s[i + 1] = "{") THEN 0
    ELSE IF /\ NonCloseRun(s, i + 2) >= 1
            /\ i + 3 + NonCloseRun(s, i + 2) <= Len(s)
            /\ s[i + 2 + NonCloseRun(s, i + 2)] = "}"
            /\ s[i + 3 + NonCloseRun(s, i + 2)] = "}"
         THEN NonCloseRun(s, i + 2) + 4
         ELSE 0

\* The non-overlapping matches from position i on, left to right
RECURSIVE FindAllFrom(_, _)
FindAllFrom(s, i) ==
    IF i > Len(s) THEN <<>>
    ELSE IF MatchLen(s, i) > 0
         THEN <<SubSeq(s, i, i + MatchLen(s, i) - 1)>> \o FindAllFrom(s, i + MatchLen(s, i))
         ELSE FindAllFrom(s, i + 1)

\* re.findall(r"\{\{[^}]+\}\}", s)
FindAll(s) == FindAllFrom(s, 1)

SeqToSet(q) == {q[i] : i \in 1..Len(q)}

\* min(S) for a non-empty set S of strings
Least(S) == CHOOSE x \in S : \A y \in S \ {x} : StrLess(x, y)

\* sorted(S) for a set S of strings
RECURSIVE Sorted(_)
Sorted(S) ==
    IF S = {} THEN <<>>
    ELSE <<Least(S)>> \o Sorted(S \ {Least(S)})

\* The matches as found, neither sorted nor made distinct
UnreplacedAsFound(remaining) == remaining

\* Lines 77-80: the placeholders the warning lists, in the order printed
Unreplaced(remaining) == Sorted(SeqToSet(remaining))

\* ------------------------------------------------------------------------
\* Inputs the model draws from
\* ------------------------------------------------------------------------

Keys == { <<"a">>, <<"b">>, <<"a", ".", "b">>, <<>> }

Leaves == { JStr(<<"h", "i">>), JInt(-12), JBool(TRUE), JNull }

\* The documents with exactly n entries, counted at all nesting levels.
RECURSIVE DocsOfSize(_)

\* Those whose first entry holds a leaf or an empty document (m = 0) or a
\* document of m entries; the other n - 1 - m entries follow it.  Keys of one
\* level are distinct, as in any dict json.load returns.
DocsWith(n, m) ==
    { d \in { <<[k |-> key, v |-> value]>> \o rest :
                 key \in Keys,
                 value \in (IF m = 0 THEN Leaves \cup {JDict(<<>>)}
                            ELSE {JDict(sub) : sub \in DocsOfSize(m)}),
                 rest \in DocsOfSize(n - 1 - m) } :
          \A i \in 2..Len(d) : d[i].k /= d[1].k }

DocsOfSize(n) ==
    IF n = 0 THEN { <<>> }
    ELSE UNION { DocsWith(n, m) : m \in 0..(n - 1) }

Pieces == { Token(<<"a">>), Token(<<"b">>), Token(<<"c">>),
            <<"x">>, <<"{", "{">>, <<"}", "}">> }

RECURSIVE TextsOf(_)
TextsOf(n) ==
    IF n = 0 THEN { <<>> }
    ELSE { p \o t : p \in Pieces, t \in TextsOf(n - 1) }

Templates == UNION { TextsOf(n) : n \in 0..MaxPieces }

FlatKeys == { <<"a">>, <<"b">> }

FlatValues == { <<"x">>, <<>>, <<"b">>, Token(<<"a">>), Token(<<"b">>) }

\* The flattened mappings over FlatKeys, in every insertion order
Mappings ==
    { <<>> }
    \cup { <<[k |-> key, v |-> value]>> : key \in FlatKeys, value \in FlatValues }
    \cup UNION { { <<[k |-> k1, v |-> v1], [k |-> k2, v |-> v2]>> :
                     k2 \in FlatKeys \ {k1},
                     v1 \in FlatValues, v2 \in FlatValues } :
                   k1 \in FlatKeys }

\* ------------------------------------------------------------------------
\* State
\* ------------------------------------------------------------------------

VARIABLES
    config_path,    \* configs/<slug>.json: [kind, doc]
    template_path,  \* template/TEMPLATE.html: [exists, text]
    audio_src,      \* configs/<slug>/audio: [exists, files]
    out_dir,        \* clients/<slug>: TRUE when the directory exists
    out_path,       \* clients/<slug>/index.html: [exists, text]
    audio_dst,      \* clients/<slug>/audio: [exists, files]
    pc,             \* per invocation: where generate(slug) stands
    flat,           \* per invocation: generate's flat
    html,           \* per invocation: generate's html
    warned,         \* per invocation: the placeholders the warning printed
    failure,        \* per invocation: what ended it, "" while it has not failed
    entries,        \* per invocation: the names rmtree or copytree still has to visit
    copying,        \* per invocation: the name copy2 has created and not yet copystat'ed, <<>> if none
    errors,         \* per invocation: copytree has collected an error
    dirfd,          \* per invocation: the directory rmtree has lstat'ed or opened:
                    \* "none", "live" (it is the one at audio_dst) or "stale" (since removed)
    mp3s,           \* per invocation: the count line 93 printed, -1 before
    exit_code,      \* per invocation: the process's exit status, -1 while it runs
    fl_d,           \* flatten's argument d
    fl_result,      \* flatten's return value
    fl_pc,          \* "call" before flatten is applied, "return" after
    su_template,    \* the template text read at line 69
    su_flat,        \* the flattened mapping of line 65
    su_html,        \* html after the loop of lines 72-73
    su_remaining,   \* re.findall's result of line 76
    su_pc           \* "call" before the replacement, "return" after

fs_vars == <<config_path, template_path, audio_src, out_dir, out_path, audio_dst>>

run_vars == <<pc, flat, html, warned, failure, entries, copying, errors, dirfd,
              mp3s, exit_code>>

harness_vars == <<fl_d, fl_result, fl_pc,
                  su_template, su_flat, su_html, su_remaining, su_pc>>

vars == <<fs_vars, run_vars, harness_vars>>

\* The invocations of generate.py for one client slug
Procs == {1, 2}

Absent == [exists |-> FALSE, text |-> <<>>]

File(text) == [exists |-> TRUE, text |-> text]

NoDir == [exists |-> FALSE, files |-> {}]

Dir(files) == [exists |-> TRUE, files |-> files]

NoRuns ==
    /\ pc = [p \in Procs |-> "Idle"]
    /\ flat = [p \in Procs |-> <<>>]
    /\ html = [p \in Procs |-> <<>>]
    /\ warned = [p \in Procs |-> <<>>]
    /\ failure = [p \in Procs |-> ""]
    /\ entries = [p \in Procs |-> {}]
    /\ copying = [p \in Procs |-> <<>>]
    /\ errors = [p \in Procs |-> FALSE]
    /\ dirfd = [p \in Procs |-> "none"]
    /\ mp3s = [p \in Procs |-> -1]
    /\ exit_code = [p \in Procs |-> -1]

NoFiles ==
    /\ config_path = [kind |-> "absent", doc |-> <<>>]
    /\ template_path = Absent
    /\ audio_src = NoDir
    /\ out_dir = FALSE
    /\ out_path = Absent
    /\ audio_dst = NoDir

HarnessOff ==
    /\ fl_d = <<>>
    /\ fl_result = <<>>
    /\ fl_pc = "off"
    /\ su_template = <<>>
    /\ su_flat = <<>>
    /\ su_html = <<>>
    /\ su_remaining = <<>>
    /\ su_pc = "off"

\* ------------------------------------------------------------------------
\* flatten applied to every document of at most MaxEntries entries
\* ------------------------------------------------------------------------

InitFlatten ==
    /\ \/ fl_d = <<>>
       \/ \E n \in 1..MaxEntries : \E m \in 0..(n - 1) : fl_d \in DocsWith(n, m)
    /\ fl_result = <<>>
    /\ fl_pc = "call"
    /\ su_template = <<>>
    /\ su_flat = <<>>
    /\ su_html = <<>>
    /\ su_remaining = <<>>
    /\ su_pc = "off"
    /\ NoFiles
    /\ NoRuns

CallFlatten ==
    /\ fl_pc = "call"
    /\ fl_result' = flatten(fl_d, <<>>)
    /\ fl_pc' = "return"
    /\ UNCHANGED <<fl_d, su_template, su_flat, su_html, su_remaining, su_pc>>
    /\ UNCHANGED <<fs_vars, run_vars>>

NextFlatten == CallFlatten

SpecFlatten == InitFlatten /\ [][NextFlatten]_vars

\* ------------------------------------------------------------------------
\* Lines 71-76 applied to every template of Templates and mapping of Mappings
\* ------------------------------------------------------------------------

InitSubstitute ==
    /\ su_template \in Templates
    /\ su_flat \in Mappings
    /\ su_html = <<>>
    /\ su_remaining = <<>>
    /\ su_pc = "call"
    /\ fl_d = <<>>
    /\ fl_result = <<>>
    /\ fl_pc = "off"
    /\ NoFiles
    /\ NoRuns

CallSubstitute ==
    /\ su_pc = "call"
    /\ su_html' = ReplaceAll(su_template, su_flat)
    /\ su_remaining' = FindAll(su_html')
    /\ su_pc' = "return"
    /\ UNCHANGED <<su_template, su_flat, fl_d, fl_result, fl_pc>>
    /\ UNCHANGED <<fs_vars, run_vars>>

NextSubstitute == CallSubstitute

SpecSubstitute == InitSubstitute /\ [][NextSubstitute]_vars

\* ------------------------------------------------------------------------
\* generate(slug), one action per step that reads or writes the file system
\* ------------------------------------------------------------------------

\* sys.exit(1) after an error message, or an uncaught exception (the
\* interpreter prints the traceback and exits with status 1)
Fail(p, why) ==
    /\ pc' = [pc EXCEPT ![p] = "Failed"]
    /\ failure' = [failure EXCEPT ![p] = why]
    /\ exit_code' = [exit_code EXCEPT ![p] = 1]

\* Control moves on; reaching the end of the script is exit status 0
Goto(p, label) ==
    /\ pc' = [pc EXCEPT ![p] = label]
    /\ exit_code' = [exit_code EXCEPT ![p] = IF label = "Done" THEN 0 ELSE @]
    /\ UNCHANGED failure

\* len(sys.argv) of an invocation: no slug, one slug, a slug and more
ArgCounts == {1, 2, 3}

\* python3 generate.py ...: lines 107-109 print the usage text and exit
\* with status 1 unless there is exactly one argument; line 115 calls
\* generate
Start(p) ==
    /\ pc[p] = "Idle"
    /\ \E argc \in ArgCounts :
         IF argc /= 2 THEN Fail(p, "UsageError") ELSE Goto(p, "ValidateConfig")
    /\ UNCHANGED <<flat, html, warned, entries, copying, errors, dirfd, mp3s>>
    /\ UNCHANGED <<fs_vars, harness_vars>>

\* Lines 52-55 with the output directory made before the test
ValidateConfigAfterMakedirs(p) ==
    /\ pc[p] = "ValidateConfig"
    /\ out_dir' = TRUE
    /\ IF config_path.kind = "absent"
       THEN Fail(p, "ConfigNotFound")
       ELSE Goto(p, "ValidateTemplate")
    /\ UNCHANGED <<flat, html, warned, entries, copying, errors, dirfd, mp3s>>
    /\ UNCHANGED <<config_path, template_path, audio_src, out_path, audio_dst, harness_vars>>

\* Lines 52-55
ValidateConfig(p) ==
    /\ pc[p] = "ValidateConfig"
    /\ IF config_path.kind = "absent"
       THEN Fail(p, "ConfigNotFound")
       ELSE Goto(p, "ValidateTemplate")
    /\ UNCHANGED <<flat, html, warned, entries, copying, errors, dirfd, mp3s>>
    /\ UNCHANGED <<fs_vars, harness_vars>>

\* Lines 57-59
ValidateTemplate(p) ==
    /\ pc[p] = "ValidateTemplate"
    /\ IF ~template_path.exists
       THEN Fail(p, "TemplateNotFound")
       ELSE Goto(p, "Render")
    /\ UNCHANGED <<flat, html, warned, entries, copying, errors, dirfd, mp3s>>
    /\ UNCHANGED <<fs_vars, harness_vars>>

\* Lines 61-80: json.load raises on a file that is not JSON, flatten raises
\* on JSON that is not an object (d.items()); otherwise flatten, replace and
\* warn.  f, h, remaining and w are flat, html, remaining and
\* sorted(set(remaining)), each computed once.
Render(p) ==
    /\ pc[p] = "Render"
    /\ IF config_path.kind = "malformed"
       THEN /\ Fail(p, "JSONDecodeError")
            /\ UNCHANGED <<flat, html, warned>>
       ELSE IF config_path.kind = "nondict"
       THEN /\ Fail(p, "AttributeError")
            /\ UNCHANGED <<flat, html, warned>>
       ELSE \E f \in {flatten(config_path.doc, <<>>)} :
            \E h \in {ReplaceAll(template_path.text, f)} :
            \E remaining \in {FindAll(h)} :
            \E w \in {Unreplaced(remaining)} :
                /\ flat' = [flat EXCEPT ![p] = f]
                /\ html' = [html EXCEPT ![p] = h]
                /\ warned' = [warned EXCEPT ![p] = w]
                /\ Goto(p, "Makedirs")
    /\ UNCHANGED <<entries, copying, errors, dirfd, mp3s>>
    /\ UNCHANGED <<fs_vars, harness_vars>>

\* Line 83: os.makedirs(out_dir, exist_ok=True)
Makedirs(p) ==
    /\ pc[p] = "Makedirs"
    /\ out_dir' = TRUE
    /\ Goto(p, "OpenPage")
    /\ UNCHANGED <<flat, html, warned, entries, copying, errors, dirfd, mp3s>>
    /\ UNCHANGED <<config_path, template_path, audio_src, out_path, audio_dst, harness_vars>>

\* Line 84 with the page opened without truncation
OpenPageNoTruncate(p) ==
    /\ pc[p] = "OpenPage"
    /\ out_path' = IF out_path.exists THEN out_path ELSE File(<<>>)
    /\ Goto(p, "Write")
    /\ UNCHANGED <<flat, html, warned, entries, copying, errors, dirfd, mp3s>>
    /\ UNCHANGED <<config_path, template_path, audio_src, out_dir, audio_dst, harness_vars>>

\* Line 84: open(out_path, "w") creates the page or truncates it
OpenPage(p) ==
    /\ pc[p] = "OpenPage"
    /\ out_path' = File(<<>>)
    /\ Goto(p, "Write")
    /\ UNCHANGED <<flat, html, warned, entries, copying, errors, dirfd, mp3s>>
    /\ UNCHANGED <<config_path, template_path, audio_src, out_dir, audio_dst, harness_vars>>

\* Line 85: f.write(html) and the close that flushes it: html goes to the
\* start of the file, over what is there
Write(p) ==
    /\ pc[p] = "Write"
    /\ out_path' = File(html[p] \o Drop(out_path.text, Len(html[p])))
    /\ Goto(p, "CopyAssets")
    /\ UNCHANGED <<flat, html, warned, entries, copying, errors, dirfd, mp3s>>
    /\ UNCHANGED <<config_path, template_path, audio_src, out_dir, audio_dst, harness_vars>>

\* The copy without the test of line 88: copytree raises on a missing source
CopyAssetsUnguarded(p) ==
    /\ pc[p] = "CopyAssets"
    /\ IF audio_src.exists THEN Goto(p, "CheckDst") ELSE Fail(p, "FileNotFoundError")
    /\ UNCHANGED <<flat, html, warned, entries, copying, errors, dirfd, mp3s>>
    /\ UNCHANGED <<fs_vars, harness_vars>>

\* Line 88, and lines 94-96 when there is no audio folder
CopyAssets(p) ==
    /\ pc[p] = "CopyAssets"
    /\ IF audio_src.exists THEN Goto(p, "CheckDst") ELSE Goto(p, "Report")
    /\ UNCHANGED <<flat, html, warned, entries, copying, errors, dirfd, mp3s>>
    /\ UNCHANGED <<fs_vars, harness_vars>>

\* Line 89 without the removal of an existing destination
CheckDstNoRemoval(p) ==
    /\ pc[p] = "CheckDst"
    /\ Goto(p, "CopytreeScan")
    /\ UNCHANGED <<flat, html, warned, entries, copying, errors, dirfd, mp3s>>
    /\ UNCHANGED <<fs_vars, harness_vars>>

\* Line 89
CheckDst(p) ==
    /\ pc[p] = "CheckDst"
    /\ IF audio_dst.exists THEN Goto(p, "RmtreeLstat") ELSE Goto(p, "CopytreeScan")
    /\ UNCHANGED <<flat, html, warned, entries, copying, errors, dirfd, mp3s>>
    /\ UNCHANGED <<fs_vars, harness_vars>>

\* Line 90, shutil.rmtree: os.lstat(path) notes which directory is there
RmtreeLstat(p) ==
    /\ pc[p] = "RmtreeLstat"
    /\ IF ~audio_dst.exists
       THEN /\ Fail(p, "FileNotFoundError")
            /\ UNCHANGED dirfd
       ELSE /\ dirfd' = [dirfd EXCEPT ![p] = "live"]
            /\ Goto(p, "RmtreeOpen")
    /\ UNCHANGED <<flat, html, warned, entries, copying, errors, mp3s>>
    /\ UNCHANGED <<fs_vars, harness_vars>>

\* Line 90, shutil.rmtree: os.open(path) and the comparison of what was
\* opened with what lstat saw.  A directory made anew since then differs from
\* it (OSError) unless the file system gave it the old inode number again.
RmtreeOpen(p) ==
    /\ pc[p] = "RmtreeOpen"
    /\ IF ~audio_dst.exists
       THEN /\ Fail(p, "FileNotFoundError")
            /\ dirfd' = [dirfd EXCEPT ![p] = "none"]
       ELSE IF dirfd[p] = "stale"
       THEN \/ /\ Fail(p, "OSError")
               /\ dirfd' = [dirfd EXCEPT ![p] = "none"]
            \/ /\ dirfd' = [dirfd EXCEPT ![p] = "live"]
               /\ Goto(p, "RmtreeScan")
       ELSE /\ Goto(p, "RmtreeScan")
            /\ UNCHANGED dirfd
    /\ UNCHANGED <<flat, html, warned, entries, copying, errors, mp3s>>
    /\ UNCHANGED <<fs_vars, harness_vars>>

\* Line 90, shutil.rmtree: os.scandir(fd) lists the directory that was
\* opened; one that has been removed since lists as empty
RmtreeScan(p) ==
    /\ pc[p] = "RmtreeScan"
    /\ entries' = [entries EXCEPT ![p] =
                      IF dirfd[p] = "live" THEN audio_dst.files ELSE {}]
    /\ Goto(p, "RmtreeUnlink")
    /\ UNCHANGED <<flat, html, warned, copying, errors, dirfd, mp3s>>
    /\ UNCHANGED <<fs_vars, harness_vars>>

\* Line 90, shutil.rmtree: os.unlink(name, dir_fd=fd) of one listed file,
\* in the directory that was opened, or, when none is left, os.rmdir(path),
\* by path.  Removing the directory makes stale what others hold of it.
RmtreeUnlink(p) ==
    /\ pc[p] = "RmtreeUnlink"
    /\ IF entries[p] /= {}
       THEN \E name \in entries[p] :
              IF dirfd[p] = "live" /\ name \in audio_dst.files
              THEN /\ audio_dst' = Dir(audio_dst.files \ {name})
                   /\ entries' = [entries EXCEPT ![p] = @ \ {name}]
                   /\ Goto(p, "RmtreeUnlink")
                   /\ UNCHANGED dirfd
              ELSE /\ Fail(p, "FileNotFoundError")
                   /\ dirfd' = [dirfd EXCEPT ![p] = "none"]
                   /\ UNCHANGED <<audio_dst, entries>>
       ELSE IF ~audio_dst.exists
       THEN /\ Fail(p, "FileNotFoundError")
            /\ dirfd' = [dirfd EXCEPT ![p] = "none"]
            /\ UNCHANGED <<audio_dst, entries>>
       ELSE IF audio_dst.files /= {}
       THEN /\ Fail(p, "OSError")
            /\ dirfd' = [dirfd EXCEPT ![p] = "none"]
            /\ UNCHANGED <<audio_dst, entries>>
       ELSE /\ audio_dst' = NoDir
            /\ dirfd' = [q \in Procs |->
                           IF q = p THEN "none"
                           ELSE IF dirfd[q] = "live" THEN "stale" ELSE dirfd[q]]
            /\ Goto(p, "CopytreeScan")
            /\ UNCHANGED entries
    /\ UNCHANGED <<flat, html, warned, copying, errors, mp3s>>
    /\ UNCHANGED <<config_path, template_path, audio_src, out_dir, out_path, harness_vars>>

\* Line 91, shutil.copytree: os.scandir(src) lists the source
CopytreeScan(p) ==
    /\ pc[p] = "CopytreeScan"
    /\ entries' = [entries EXCEPT ![p] = audio_src.files]
    /\ errors' = [errors EXCEPT ![p] = FALSE]
    /\ Goto(p, "CopytreeMkdir")
    /\ UNCHANGED <<flat, html, warned, copying, dirfd, mp3s>>
    /\ UNCHANGED <<fs_vars, harness_vars>>

\* Line 91, shutil.copytree: os.makedirs(dst), which refuses an existing dst
CopytreeMkdir(p) ==
    /\ pc[p] = "CopytreeMkdir"
    /\ IF audio_dst.exists
       THEN /\ Fail(p, "FileExistsError")
            /\ UNCHANGED <<audio_dst, out_dir>>
       ELSE /\ audio_dst' = Dir({})
            /\ out_dir' = TRUE
            /\ Goto(p, "CopytreeCopy")
    /\ UNCHANGED <<flat, html, warned, entries, copying, errors, dirfd, mp3s>>
    /\ UNCHANGED <<config_path, template_path, audio_src, out_path, harness_vars>>

\* Line 91, shutil.copytree: copy2's copyfile creates and fills one listed
\* file at dst/name (an OSError is collected and the loop goes on), or, when
\* none is left, copystat(src, dst) and the raise of what was collected
CopytreeCopy(p) ==
    /\ pc[p] = "CopytreeCopy"
    /\ IF entries[p] /= {}
       THEN \E name \in entries[p] :
              /\ entries' = [entries EXCEPT ![p] = @ \ {name}]
              /\ IF audio_dst.exists
                 THEN /\ audio_dst' = Dir(audio_dst.files \cup {name})
                      /\ copying' = [copying EXCEPT ![p] = name]
                      /\ Goto(p, "CopytreeCopystat")
                      /\ UNCHANGED errors
                 ELSE /\ errors' = [errors EXCEPT ![p] = TRUE]
                      /\ Goto(p, "CopytreeCopy")
                      /\ UNCHANGED <<audio_dst, copying>>
       ELSE /\ IF errors[p] \/ ~audio_dst.exists
               THEN Fail(p, "shutil.Error")
               ELSE Goto(p, "Count")
            /\ UNCHANGED <<audio_dst, entries, copying, errors>>
    /\ UNCHANGED <<flat, html, warned, dirfd, mp3s>>
    /\ UNCHANGED <<config_path, template_path, audio_src, out_dir, out_path, harness_vars>>

\* Line 91, shutil.copytree: copy2's copystat(src/name, dst/name), by path;
\* its OSError is collected and the loop goes on
CopytreeCopystat(p) ==
    /\ pc[p] = "CopytreeCopystat"
    /\ errors' = [errors EXCEPT ![p] =
                     @ \/ ~(audio_dst.exists /\ copying[p] \in audio_dst.files)]
    /\ copying' = [copying EXCEPT ![p] = <<>>]
    /\ Goto(p, "CopytreeCopy")
    /\ UNCHANGED <<flat, html, warned, entries, dirfd, mp3s>>
    /\ UNCHANGED <<fs_vars, harness_vars>>

\* Lines 92-93
Count(p) ==
    /\ pc[p] = "Count"
    /\ IF ~audio_dst.exists
       THEN /\ Fail(p, "FileNotFoundError")
            /\ UNCHANGED mp3s
       ELSE /\ mp3s' = [mp3s EXCEPT ![p] =
                   Cardinality({f \in audio_dst.files : EndsWith(f, <<".", "m", "p", "3">>)})]
            /\ Goto(p, "Report")
    /\ UNCHANGED <<flat, html, warned, entries, copying, errors, dirfd>>
    /\ UNCHANGED <<fs_vars, harness_vars>>

\* Lines 98-103
Report(p) ==
    /\ pc[p] = "Report"
    /\ Goto(p, "Done")
    /\ UNCHANGED <<flat, html, warned, entries, copying, errors, dirfd, mp3s>>
    /\ UNCHANGED <<fs_vars, harness_vars>>

\* The steps of one invocation of generate
Step(p) ==
    \/ ValidateConfig(p)
    \/ ValidateTemplate(p)
    \/ Render(p)
    \/ Makedirs(p)
    \/ OpenPage(p)
    \/ Write(p)
    \/ CopyAssets(p)
    \/ CheckDst(p)
    \/ RmtreeLstat(p)
    \/ RmtreeOpen(p)
    \/ RmtreeScan(p)
    \/ RmtreeUnlink(p)
    \/ CopytreeScan(p)
    \/ CopytreeMkdir(p)
    \/ CopytreeCopy(p)
    \/ CopytreeCopystat(p)
    \/ Count(p)
    \/ Report(p)

\* The process has ended (line 115 returned, or sys.exit, or a traceback):
\* nothing of it is left but the files.
Return(p) ==
    /\ pc[p] \in {"Done", "Failed"}
    /\ pc' = [pc EXCEPT ![p] = "Idle"]
    /\ flat' = [flat EXCEPT ![p] = <<>>]
    /\ html' = [html EXCEPT ![p] = <<>>]
    /\ warned' = [warned EXCEPT ![p] = <<>>]
    /\ failure' = [failure EXCEPT ![p] = ""]
    /\ entries' = [entries EXCEPT ![p] = {}]
    /\ copying' = [copying EXCEPT ![p] = <<>>]
    /\ errors' = [errors EXCEPT ![p] = FALSE]
    /\ dirfd' = [dirfd EXCEPT ![p] = "none"]
    /\ mp3s' = [mp3s EXCEPT ![p] = -1]
    /\ exit_code' = [exit_code EXCEPT ![p] = -1]
    /\ UNCHANGED <<fs_vars, harness_vars>>

\* ------------------------------------------------------------------------
\* The operator's files, edited between invocations
\* ------------------------------------------------------------------------

Hello == <<"h", "e", "l", "l", "o">>

\* {}, {"a": {"b": "hello"}}, {"x": "1"}
FsDocs == { <<>>,
            <<[k |-> <<"a">>, v |-> JDict(<<[k |-> <<"b">>, v |-> JStr(Hello)]>>)]>>,
            <<[k |-> <<"x">>, v |-> JStr(<<"1">>)]>> }

FsConfigs ==
    { [kind |-> "absent", doc |-> <<>>],
      [kind |-> "malformed", doc |-> <<>>],
      [kind |-> "nondict", doc |-> <<>>] }
    \cup { [kind |-> "doc", doc |-> d] : d \in FsDocs }

\* "<p>{{a.b}}</p>", "{{x}} {{y}}", "{{y}} {{x}} {{y}}"
FsTemplates ==
    { Absent,
      File(<<"<", "p", ">">> \o Token(<<"a", ".", "b">>) \o <<"<", "/", "p", ">">>),
      File(Token(<<"x">>) \o <<" ">> \o Token(<<"y">>)),
      File(Token(<<"y">>) \o <<" ">> \o Token(<<"x">>) \o <<" ">> \o Token(<<"y">>)) }

AudioNames == { <<"a", ".", "m", "p", "3">>, <<"n", ".", "t", "x", "t">> }

FsAudio == { NoDir } \cup { Dir(S) : S \in SUBSET AudioNames }

AllIdle == \A p \in Procs : pc[p] = "Idle"

EditConfig ==
    /\ AllIdle
    /\ config_path' \in FsConfigs \ {config_path}
    /\ UNCHANGED <<template_path, audio_src, out_dir, out_path, audio_dst>>
    /\ UNCHANGED <<run_vars, harness_vars>>

EditTemplate ==
    /\ AllIdle
    /\ template_path' \in FsTemplates \ {template_path}
    /\ UNCHANGED <<config_path, audio_src, out_dir, out_path, audio_dst>>
    /\ UNCHANGED <<run_vars, harness_vars>>

EditAudio ==
    /\ AllIdle
    /\ audio_src' \in FsAudio \ {audio_src}
    /\ UNCHANGED <<config_path, template_path, out_dir, out_path, audio_dst>>
    /\ UNCHANGED <<run_vars, harness_vars>>

\* ------------------------------------------------------------------------
\* One operator: invocations one after the other
\* ------------------------------------------------------------------------

Init ==
    /\ config_path \in FsConfigs
    /\ template_path \in FsTemplates
    /\ audio_src \in FsAudio
    /\ out_dir = FALSE
    /\ out_path = Absent
    /\ audio_dst = NoDir
    /\ NoRuns
    /\ HarnessOff

Next ==
    \/ Start(1)
    \/ Step(1)
    \/ Return(1)
    \/ EditConfig
    \/ EditTemplate
    \/ EditAudio

Spec == Init /\ [][Next]_vars

\* A started invocation runs on: it is one sequential process.
FairSpec == Spec /\ WF_vars(Step(1))

\* ------------------------------------------------------------------------
\* Two invocations for the same slug at the same time
\* ------------------------------------------------------------------------

InitConcurrent ==
    /\ config_path = [kind |-> "doc", doc |-> <<[k |-> <<"x">>, v |-> JStr(<<"1">>)]>>]
    /\ template_path = File(Token(<<"x">>) \o <<" ">> \o Token(<<"y">>))
    /\ audio_src = Dir(AudioNames)
    /\ \/ /\ out_dir = FALSE
          /\ out_path = Absent
          /\ audio_dst = NoDir
       \/ /\ out_dir = TRUE
          /\ out_path \in {Absent, File(<<"1">>)}
          /\ audio_dst \in FsAudio
    /\ NoRuns
    /\ HarnessOff

NextConcurrent == \E p \in Procs : Start(p) \/ Step(p)

SpecConcurrent == InitConcurrent /\ [][NextConcurrent]_vars

\* ------------------------------------------------------------------------
\* Reference notions the claims are stated with
\* ------------------------------------------------------------------------

\* The root-to-leaf paths of a document, each with its leaf.
RECURSIVE LeafPathsFrom(_, _)
LeafPathsFrom(d, path) ==
    UNION { IF d[i].v.tag = "dict"
            THEN LeafPathsFrom(d[i].v.items, Append(path, d[i].k))
            ELSE { [path |-> Append(path, d[i].k), leaf |-> d[i].v] } :
            i \in 1..Len(d) }

LeafPaths(d) == LeafPathsFrom(d, <<>>)

\* ".".join(path)
RECURSIVE DotJoin(_)
DotJoin(path) ==
    IF Len(path) = 1 THEN path[1]
    ELSE path[1] \o <<".">> \o DotJoin(Tail(path))

\* Every key of the document, at every level.
RECURSIVE AllKeys(_)
AllKeys(d) ==
    UNION { {d[i].k} \cup (IF d[i].v.tag = "dict" THEN AllKeys(d[i].v.items) ELSE {}) :
            i \in 1..Len(d) }

HasEmptyNested(d) ==
    \E i \in 1..Len(d) : d[i].v.tag = "dict" /\ d[i].v.items = <<>>

\* A key that is not empty and holds no "."
PlainKey(key) == key /= <<>> /\ \A i \in 1..Len(key) : key[i] /= "."

\* flatten's result has exactly one entry per leaf, under the dot-joined
\* path, holding the leaf's string coercion.
OneEntryPerLeaf(d, result) ==
    LET lps == LeafPaths(d)
    IN  /\ \A p \in lps, q \in lps :
               p.path /= q.path => DotJoin(p.path) /= DotJoin(q.path)
        /\ Len(result) = Cardinality(lps)
        /\ DictKeys(result) = { DotJoin(p.path) : p \in lps }
        /\ \A p \in lps : DictGet(result, DotJoin(p.path)) = StrOf(p.leaf)

BraceFree(s) == \A i \in 1..Len(s) : s[i] /= "{" /\ s[i] /= "}"

\* The text is made of characters other than braces and of placeholders
\* "{{" key "}}" with a key free of braces.
RECURSIVE WellFormed(_)
WellFormed(t) ==
    IF t = <<>> THEN TRUE
    ELSE IF Head(t) /= "{" /\ Head(t) /= "}" THEN WellFormed(Tail(t))
    ELSE IF ~StartsWith(t, <<"{", "{">>) THEN FALSE
    ELSE LET run == NonCloseRun(t, 3)
         IN  /\ BraceFree(SubSeq(t, 3, 2 + run))
             /\ StartsWith(Drop(t, 2 + run), <<"}", "}">>)
             /\ WellFormed(Drop(t, 4 + run))

BraceFreeMapping(m) ==
    \A i \in 1..Len(m) : BraceFree(m[i].k) /\ BraceFree(m[i].v)

\* One left-to-right pass over the template that replaces each placeholder
\* of a key of the mapping by the key's value and never looks at what it
\* has inserted.
RECURSIVE SimSubst(_, _)
SimSubst(t, m) ==
    IF t = <<>> THEN <<>>
    ELSE IF \E i \in 1..Len(m) : StartsWith(t, Token(m[i].k))
    THEN LET i == CHOOSE j \in 1..Len(m) : StartsWith(t, Token(m[j].k))
         IN  m[i].v \o SimSubst(Drop(t, Len(Token(m[i].k))), m)
    ELSE <<Head(t)>> \o SimSubst(Tail(t), m)

\* The orders a mapping of at most two keys can be iterated in.
Orders(m) == IF Len(m) = 2 THEN { m, <<m[2], m[1]>> } ELSE { m }

\* ------------------------------------------------------------------------
\* Claims about flatten (under SpecFlatten)
\* ------------------------------------------------------------------------

\* C4 as stated: for every document, flatten yields exactly one entry per
\* leaf, distinct root-to-leaf paths give distinct dot-joined keys, the key
\* set is the set of dot-joined paths and each value is the leaf's string
\* coercion.
C4_Original ==
    fl_pc = "return" => OneEntryPerLeaf(fl_d, fl_result)

\* C4 as amended: the same, for the documents all of whose keys are
\* non-empty and free of ".".
C4_Amended ==
    (fl_pc = "return" /\ \A key \in AllKeys(fl_d) : PlainKey(key))
        => OneEntryPerLeaf(fl_d, fl_result)

\* A document with plain keys, a leaf two levels down and an empty nested
\* document has been flattened.
C4_Witness ==
    /\ fl_pc = "return"
    /\ \A key \in AllKeys(fl_d) : PlainKey(key)
    /\ \E p \in LeafPaths(fl_d) : Len(p.path) = 2
    /\ HasEmptyNested(fl_d)
    /\ Len(fl_result) = 1

\* ------------------------------------------------------------------------
\* Claims about the replacement of placeholders (under SpecSubstitute)
\* ------------------------------------------------------------------------

\* C2 as stated: the rendered text is the template with each placeholder of
\* a key of the mapping replaced by the key's value and everything else left
\* verbatim, and it holds no placeholder of a key of the mapping.
C2_Original ==
    su_pc = "return" =>
        /\ su_html = SimSubst(su_template, su_flat)
        /\ \A key \in DictKeys(su_flat) : ~Contains(su_html, Token(key))

\* C2 as amended: whenever no key of the mapping holds a brace and the
\* template with its placeholders replaced verbatim holds no placeholder of a
\* key of the mapping, the rendered text is exactly that text (and so holds
\* no placeholder of a key of the mapping).
C2_Amended ==
    (/\ su_pc = "return"
     /\ \A key \in DictKeys(su_flat) : BraceFree(key)
     /\ \A key \in DictKeys(su_flat) :
            ~Contains(SimSubst(su_template, su_flat), Token(key)))
    => (/\ su_html = SimSubst(su_template, su_flat)
        /\ \A key \in DictKeys(su_flat) : ~Contains(su_html, Token(key)))

\* Both keys of the mapping were replaced, one of them by the empty text,
\* around a placeholder the mapping does not know.
C2_Witness ==
    /\ su_pc = "return"
    /\ su_template = Token(<<"a">>) \o Token(<<"c">>) \o Token(<<"b">>)
    /\ su_flat = <<[k |-> <<"b">>, v |-> <<>>], [k |-> <<"a">>, v |-> <<"x">>]>>
    /\ su_html = <<"x">> \o Token(<<"c">>)

\* C3 as stated: the rendered text is the same for every iteration order of
\* the mapping's keys.
C3_Original ==
    su_pc = "return" =>
        \A m \in Orders(su_flat) : ReplaceAll(su_template, m) = su_html

\* C7 as stated: replacing again in the rendered text, with the same
\* mapping, changes nothing.
C7_Original ==
    su_pc = "return" =>
        /\ ReplaceAll(su_html, su_flat) = su_html
        /\ FindAll(ReplaceAll(su_html, su_flat)) = su_remaining

\* C7 as amended: the same, when the template is well formed and no key
\* and no value of the mapping holds a brace.
C7_Amended ==
    (su_pc = "return" /\ WellFormed(su_template) /\ BraceFreeMapping(su_flat)) =>
        /\ ReplaceAll(su_html, su_flat) = su_html
        /\ FindAll(ReplaceAll(su_html, su_flat)) = su_remaining

\* A well-formed template in which a placeholder was replaced twice and
\* another was left.
C7_Witness ==
    /\ su_pc = "return"
    /\ WellFormed(su_template)
    /\ BraceFreeMapping(su_flat)
    /\ su_template = Token(<<"a">>) \o Token(<<"c">>) \o Token(<<"a">>)
    /\ su_html = <<"x">> \o Token(<<"c">>) \o <<"x">>

\* C9 as stated: every placeholder found in the rendered text was found in
\* the template.
C9_Original ==
    su_pc = "return" =>
        SeqToSet(su_remaining) \subseteq SeqToSet(FindAll(su_template))

\* C9 as amended: the same, when the template is well formed and no key
\* and no value of the mapping holds a brace.
C9_Amended ==
    (su_pc = "return" /\ WellFormed(su_template) /\ BraceFreeMapping(su_flat)) =>
        SeqToSet(su_remaining) \subseteq SeqToSet(FindAll(su_template))

\* A well-formed template of which one placeholder was replaced and one
\* is reported as left.
C9_Witness ==
    /\ su_pc = "return"
    /\ WellFormed(su_template)
    /\ BraceFreeMapping(su_flat)
    /\ Len(FindAll(su_template)) = 2
    /\ Len(su_remaining) = 1
    /\ su_flat /= <<>>

\* ------------------------------------------------------------------------
\* Claims about one invocation after the other (under Spec and FairSpec)
\* ------------------------------------------------------------------------

\* A run is a call of generate (line 115).  The usage exit of lines 107-109
\* ends the process before any run: the claims about runs leave it aside.

\* The steps of lines 83-85
InWrite == {"Makedirs", "OpenPage", "Write"}

\* The steps of lines 88-96
InCopyAssets == {"CopyAssets", "CheckDst", "RmtreeLstat", "RmtreeOpen", "RmtreeScan",
                 "RmtreeUnlink", "CopytreeScan", "CopytreeMkdir", "CopytreeCopy",
                 "CopytreeCopystat", "Count"}

\* generate has been called and has not ended
Started == {"ValidateConfig", "ValidateTemplate", "Render", "Report"}
               \cup InWrite \cup InCopyAssets

\* The output page has been written by the invocation
Written == (InCopyAssets \cup {"Report", "Done"})

\* The place of a step in Start, ValidateConfig, ValidateTemplate, Render,
\* Write, CopyAssets, Done
Rank(label) ==
    CASE label = "Idle" -> 0
      [] label = "ValidateConfig" -> 1
      [] label = "ValidateTemplate" -> 2
      [] label = "Render" -> 3
      [] label \in InWrite -> 4
      [] label \in InCopyAssets -> 5
      [] label \in {"Report", "Done"} -> 6
      [] label = "Failed" -> 7

\* C1: the configuration is checked first and the template second; a
\* missing configuration ends the run with ConfigNotFound, a missing
\* template (the configuration being there) with TemplateNotFound, both
\* with exit status 1, and from the start of the run to that exit no file
\* or directory is created, written or removed.
C1_ChecksInOrder ==
    [][\A p \in Procs :
         /\ (pc[p] = "ValidateConfig" /\ pc'[p] /= pc[p]) =>
                IF config_path.kind = "absent"
                THEN pc'[p] = "Failed" /\ failure'[p] = "ConfigNotFound"
                                       /\ exit_code'[p] = 1
                ELSE pc'[p] = "ValidateTemplate"
         /\ (pc[p] = "ValidateTemplate" /\ pc'[p] /= pc[p]) =>
                IF ~template_path.exists
                THEN pc'[p] = "Failed" /\ failure'[p] = "TemplateNotFound"
                                       /\ exit_code'[p] = 1
                ELSE pc'[p] = "Render"
         /\ (pc[p] \in {"Idle", "ValidateConfig", "ValidateTemplate"} /\ pc'[p] /= pc[p]) =>
                fs_vars' = fs_vars
         /\ (failure'[p] = "TemplateNotFound") => config_path.kind /= "absent"
      ]_vars

\* A run has ended with TemplateNotFound although the configuration is a
\* document, and the page an earlier run wrote is still there.
C1_Witness ==
    /\ pc[1] = "Failed"
    /\ failure[1] = "TemplateNotFound"
    /\ config_path.kind = "doc"
    /\ out_path.exists
    /\ audio_dst.exists

\* s is strictly increasing in Python's string order
StrictlySorted(q) == \A i \in 1..(Len(q) - 1) : StrLess(q[i], q[i + 1])

\* What a run that has passed the write step has done
PageWrittenWithWarning(p) ==
    /\ html[p] = ReplaceAll(template_path.text, flatten(config_path.doc, <<>>))
    /\ out_dir
    /\ out_path = File(html[p])
    /\ StrictlySorted(warned[p])
    /\ SeqToSet(warned[p]) = SeqToSet(FindAll(html[p]))

\* C5 as stated: with configuration and template both there the run does
\* not fail, leftover placeholders or not; it writes the rendered text as
\* the page and the warning lists the distinct leftover placeholders of the
\* rendered text, each once, sorted (none when there is none).
C5_Original ==
    \A p \in Procs :
        /\ (pc[p] = "Failed" /\ failure[p] /= "UsageError") =>
              (config_path.kind = "absent" \/ ~template_path.exists)
        /\ pc[p] \in Written => PageWrittenWithWarning(p)

\* C5 as amended: the same, with a configuration that deserializes as a
\* key-value document; a configuration that does not ends the run in Render
\* with json.load's or flatten's exception.
C5_Amended ==
    \A p \in Procs :
        /\ (pc[p] = "Failed" /\ failure[p] /= "UsageError") =>
              \/ config_path.kind = "absent"
              \/ ~template_path.exists
              \/ config_path.kind \in {"malformed", "nondict"}
        /\ pc[p] \in Written => PageWrittenWithWarning(p)

\* A run has ended well with two distinct placeholders left, one of them
\* twice in the page.
C5_Witness ==
    /\ pc[1] = "Done"
    /\ exit_code[1] = 0
    /\ warned[1] = <<Token(<<"x">>), Token(<<"y">>)>>
    /\ Len(FindAll(out_path.text)) = 3

FilesOf(dir) == IF dir.exists THEN dir.files ELSE {}

\* C6 as stated: after a successful run the page is the rendering of the
\* configuration and template of that run and the destination audio
\* directory holds exactly the files of the audio source.
C6_Original ==
    pc[1] = "Done" =>
        /\ out_path = File(ReplaceAll(template_path.text, flatten(config_path.doc, <<>>)))
        /\ FilesOf(audio_dst) = FilesOf(audio_src)

\* C6 as amended: the same for the page; for the audio directory, provided
\* the audio source directory exists at that run.
C6_Amended ==
    pc[1] = "Done" =>
        /\ out_path = File(ReplaceAll(template_path.text, flatten(config_path.doc, <<>>)))
        /\ audio_src.exists => audio_dst = Dir(audio_src.files)

\* A successful run has copied a source of one file that is no mp3.
C6_Witness ==
    /\ pc[1] = "Done"
    /\ audio_src = Dir({<<"n", ".", "t", "x", "t">>})
    /\ audio_dst = audio_src
    /\ mp3s[1] = 0
    /\ out_path = File(<<"1", " ">> \o Token(<<"y">>))

\* A step keeps the order of the states, with the failure exits in FailFrom,
\* skips CopyAssets exactly when there is no audio source directory, and
\* touches the audio directory only after the page is written.
OrderStep(FailFrom) ==
    /\ (pc'[1] /= pc[1] /\ pc'[1] \notin {"Idle", "Failed"}) =>
           \/ Rank(pc'[1]) = Rank(pc[1]) + 1
           \/ Rank(pc'[1]) = Rank(pc[1]) /\ Rank(pc[1]) \in {4, 5, 6}
    /\ (pc[1] = "CopyAssets" /\ pc'[1] /= pc[1]) =>
           (pc'[1] = "Report" <=> ~audio_src.exists)
    /\ (pc[1] \in Started /\ pc'[1] = "Failed") => pc[1] \in FailFrom
    /\ (audio_dst' /= audio_dst) =>
           (pc[1] \in InCopyAssets /\ out_path = File(html[1]))

\* C8 as stated: the states follow in order, every run ends, the run fails
\* only in ValidateConfig and ValidateTemplate, and past ValidateTemplate it
\* reaches Done.
C8_Original ==
    /\ [][OrderStep({"ValidateConfig", "ValidateTemplate"})]_vars
    /\ []((pc[1] = "Failed" /\ failure[1] /= "UsageError") =>
            failure[1] \in {"ConfigNotFound", "TemplateNotFound"})
    /\ (pc[1] \in Started) ~> (pc[1] \in {"Done", "Failed"})
    /\ (pc[1] = "Render") ~> (pc[1] = "Done")

\* C8 as amended: the same, except that Render fails, with json.load's or
\* flatten's exception, when the configuration does not deserialize as a
\* key-value document; with one that does, the run past ValidateTemplate
\* reaches Done.
C8_Amended ==
    /\ [][OrderStep({"ValidateConfig", "ValidateTemplate", "Render"})]_vars
    /\ []((pc[1] = "Failed" /\ failure[1] /= "UsageError") =>
            \/ failure[1] \in {"ConfigNotFound", "TemplateNotFound"}
            \/ failure[1] = "JSONDecodeError" /\ config_path.kind = "malformed"
            \/ failure[1] = "AttributeError" /\ config_path.kind = "nondict")
    /\ (pc[1] \in Started) ~> (pc[1] \in {"Done", "Failed"})
    /\ (pc[1] = "Render" /\ config_path.kind = "doc") ~> (pc[1] = "Done")

\* A run has reached Done through CopyAssets, with the audio directory
\* copied and both its files there.
C8_Witness ==
    /\ pc[1] = "Done"
    /\ exit_code[1] = 0
    /\ mp3s[1] = 1
    /\ audio_dst = Dir(AudioNames)
    /\ warned[1] = <<>>

\* ------------------------------------------------------------------------
\* Claims about two invocations at once (under SpecConcurrent)
\* ------------------------------------------------------------------------

Other(p) == CHOOSE q \in Procs : q /= p

\* C10: with two runs for one slug at once, a run fails past
\* ValidateTemplate only in the removal, the copy or the listing of the
\* audio directory (lines 90-92), with the file-system error of a directory
\* or file that the other run has removed or created meanwhile: the other
\* run is then itself past line 89.
C10_OnlyTheAudioRace ==
    \A p \in Procs :
        (pc[p] = "Failed" /\ failure[p] /= "UsageError") =>
            /\ failure[p] \in {"FileNotFoundError", "FileExistsError",
                               "OSError", "shutil.Error"}
            /\ exit_code[p] = 1
            /\ out_path = File(html[p])
            /\ pc[Other(p)] \in {"RmtreeLstat", "RmtreeOpen", "RmtreeScan",
                                 "RmtreeUnlink", "CopytreeScan", "CopytreeMkdir",
                                 "CopytreeCopy", "CopytreeCopystat", "Count",
                                 "Report", "Done", "Failed"}
            /\ failure[Other(p)] /= "UsageError"

\* One run has ended well and the other has failed in rmtree, and the audio
\* directory they leave lacks a file of the source.
C10_Witness ==
    /\ pc[1] = "Done"
    /\ pc[2] = "Failed"
    /\ failure[2] = "OSError"
    /\ audio_dst.exists
    /\ audio_dst.files /= audio_src.files

====
